---------------------------- MODULE Spec2Model ----------------------------
(***************************************************************************)
(* ColorTrace: the colour-extraction core (js/colorExtractor.js), the      *)
(* colour utilities (utils) and the application glue (main script).        *)
(*                                                                         *)
(* Strings are TLA+ strings; the character at position i of s is           *)
(* SubSeq(s, i, i).  A JavaScript Map is a sequence of entries in          *)
(* insertion order.  The number NaN is the value NaN below.  All other     *)
(* numbers the program handles here are non-negative integers.             *)
(***************************************************************************)
EXTENDS Integers, Sequences, FiniteSets, TLC

VARIABLES
    colorMap,       \* ColorExtractor.colorMap: entries [hex, rgb, count] in insertion order
    added,          \* history: the (r,g,b) handed to addColor since the last colorMap.clear()
    currentColors,  \* main script: let currentColors
    requests,       \* the handleFile invocations so far, in the order they were started
    toasts,         \* the messages showToast was called with by the most recent handler
    last,           \* the most recent handler: what ran, for which request, on what input
    nEvents         \* number of user events so far

vars == <<colorMap, added, currentColors, requests, toasts, last, nEvents>>

-----------------------------------------------------------------------------
(* Bounds of the model *)

\* addColor calls explored after a clear in the clusterer-only specification
MaxAdds == 4
\* user events (drops, clicks) explored in the application specification
MaxEvents == 2

-----------------------------------------------------------------------------
(* const x = v; ...x...: the value v is computed once and named *)

With(v, F(_)) == F(v)

-----------------------------------------------------------------------------
(* Strings *)

\* the character at position i, "" outside the string
Char(s, i) == IF i >= 1 /\ i <= Len(s) THEN SubSeq(s, i, i) ELSE ""

\* the characters at positions a..b that exist
Slice(s, a, b) ==
    LET lo == IF a < 1 THEN 1 ELSE a
        hi == IF b > Len(s) THEN Len(s) ELSE b
    IN  IF lo > hi THEN "" ELSE SubSeq(s, lo, hi)

\* the digits Number.prototype.toString writes
HexChars == "0123456789abcdef"

\* the upper-case form of each lower-case letter
UpperOf ==
    ("a" :> "A") @@ ("b" :> "B") @@ ("c" :> "C") @@ ("d" :> "D") @@ ("e" :> "E") @@ ("f" :> "F")
      @@ ("g" :> "G") @@ ("h" :> "H") @@ ("i" :> "I") @@ ("j" :> "J") @@ ("k" :> "K") @@ ("l" :> "L")
      @@ ("m" :> "M") @@ ("n" :> "N") @@ ("o" :> "O") @@ ("p" :> "P") @@ ("q" :> "Q") @@ ("r" :> "R")
      @@ ("s" :> "S") @@ ("t" :> "T") @@ ("u" :> "U") @@ ("v" :> "V") @@ ("w" :> "W") @@ ("x" :> "X")
      @@ ("y" :> "Y") @@ ("z" :> "Z")

\* the lower-case form of each upper-case letter
LowerOf ==
    ("A" :> "a") @@ ("B" :> "b") @@ ("C" :> "c") @@ ("D" :> "d") @@ ("E" :> "e") @@ ("F" :> "f")
      @@ ("G" :> "g") @@ ("H" :> "h") @@ ("I" :> "i") @@ ("J" :> "j") @@ ("K" :> "k") @@ ("L" :> "l")
      @@ ("M" :> "m") @@ ("N" :> "n") @@ ("O" :> "o") @@ ("P" :> "p") @@ ("Q" :> "q") @@ ("R" :> "r")
      @@ ("S" :> "s") @@ ("T" :> "t") @@ ("U" :> "u") @@ ("V" :> "v") @@ ("W" :> "w") @@ ("X" :> "x")
      @@ ("Y" :> "y") @@ ("Z" :> "z")

\* the value of each digit of a radix up to 16, in either case
DigitOf ==
    ("0" :> 0) @@ ("1" :> 1) @@ ("2" :> 2) @@ ("3" :> 3) @@ ("4" :> 4) @@ ("5" :> 5) @@ ("6" :> 6) @@ ("7" :> 7)
      @@ ("8" :> 8) @@ ("9" :> 9) @@ ("a" :> 10) @@ ("b" :> 11) @@ ("c" :> 12) @@ ("d" :> 13) @@ ("e" :> 14) @@ ("f" :> 15)
      @@ ("A" :> 10) @@ ("B" :> 11) @@ ("C" :> 12) @@ ("D" :> 13) @@ ("E" :> 14) @@ ("F" :> 15)

RECURSIVE indexFrom(_, _, _)
indexFrom(s, c, i) ==
    IF i > Len(s) THEN 0 ELSE IF SubSeq(s, i, i) = c THEN i ELSE indexFrom(s, c, i + 1)

\* position of the first occurrence of character c in s, 0 when absent
IndexOf(s, c) == indexFrom(s, c, 1)

UpperChar(c) == IF c \in DOMAIN UpperOf THEN UpperOf[c] ELSE c

LowerChar(c) == IF c \in DOMAIN LowerOf THEN LowerOf[c] ELSE c

\* the value of a digit of radix up to 16 in either case, -1 for another character
digitValue(c) == IF c \in DOMAIN DigitOf THEN DigitOf[c] ELSE -1

RECURSIVE toUpperCase(_)
toUpperCase(s) ==
    IF s = "" THEN "" ELSE UpperChar(Char(s, 1)) \o toUpperCase(SubSeq(s, 2, Len(s)))

RECURSIVE toLowerCase(_)
toLowerCase(s) ==
    IF s = "" THEN "" ELSE LowerChar(Char(s, 1)) \o toLowerCase(SubSeq(s, 2, Len(s)))

startsWith(s, p) == Len(s) >= Len(p) /\ SubSeq(s, 1, Len(p)) = p

endsWith(s, p) == Len(s) >= Len(p) /\ SubSeq(s, Len(s) - Len(p) + 1, Len(s)) = p

\* String.prototype.substring(a, b) with 0-based a, b; clamps to the length
substring(s, a, b) ==
    LET lo == IF a > Len(s) THEN Len(s) ELSE a
        hi == IF b > Len(s) THEN Len(s) ELSE b
    IN  SubSeq(s, lo + 1, hi)

IsDigit(c)    == digitValue(c) \in 0..9
IsHexDigit(c) == digitValue(c) >= 0
IsSpace(c)    == c = " "

\* String.prototype.trim
RECURSIVE trim(_)
trim(s) ==
    IF s = "" THEN ""
    ELSE IF IsSpace(Char(s, 1)) THEN trim(SubSeq(s, 2, Len(s)))
    ELSE IF IsSpace(Char(s, Len(s))) THEN trim(SubSeq(s, 1, Len(s) - 1))
    ELSE s

\* String.prototype.replace(c, '') for a one-character pattern: the first occurrence only
removeFirst(s, c) ==
    With(IndexOf(s, c), LAMBDA i :
        IF i = 0 THEN s ELSE SubSeq(s, 1, i - 1) \o SubSeq(s, i + 1, Len(s)))

-----------------------------------------------------------------------------
(* Numbers *)

\* the number NaN (no operation of the model yields a negative number)
NaN == -1

\* Number.prototype.toString(radix) of a non-negative integer, or of NaN
RECURSIVE toStringRadix(_, _)
toStringRadix(n, radix) ==
    IF n = NaN THEN "NaN"
    ELSE IF n < radix THEN Char(HexChars, n + 1)
    ELSE toStringRadix(n \div radix, radix) \o Char(HexChars, (n % radix) + 1)

\* parseInt(s, radix): the value of the longest prefix of digits of that radix, NaN
\* when there is none. (No string of the model has a sign, leading blanks or 0x.)
RECURSIVE parseIntFrom(_, _, _, _)
parseIntFrom(s, radix, i, acc) ==
    With(digitValue(Char(s, i)), LAMBDA d :
        IF i > Len(s) \/ d < 0 \/ d >= radix
        THEN acc
        ELSE parseIntFrom(s, radix, i + 1, (IF acc = NaN THEN 0 ELSE acc) * radix + d))

parseInt(s, radix) == parseIntFrom(s, radix, 1, NaN)

-----------------------------------------------------------------------------
(* utils: colour conversion *)

RGB(r, g, b) == [r |-> r, g |-> g, b |-> b]

\* A faulty toHex: a one-digit value is not padded with '0'.
toHexNoPad(n) == toStringRadix(n, 16)

\* rgbToHex's inner toHex. Math.round is the identity on the integers and on NaN,
\* the only numbers that reach it.
toHex(n) ==
    With(toStringRadix(n, 16), LAMBDA hex : IF Len(hex) = 1 THEN "0" \o hex ELSE hex)

rgbToHex(r, g, b) == toUpperCase("#" \o toHex(r) \o toHex(g) \o toHex(b))

RECURSIVE doubleChars(_)
doubleChars(s) ==
    IF s = "" THEN ""
    ELSE Char(s, 1) \o Char(s, 1) \o doubleChars(SubSeq(s, 2, Len(s)))

\* the three components of a string of hexadecimal digits that has no '#'
components(hex) ==
    RGB(parseInt(substring(hex, 0, 2), 16),
        parseInt(substring(hex, 2, 4), 16),
        parseInt(substring(hex, 4, 6), 16))

hexToRgb(hex) ==
    With(removeFirst(hex, "#"), LAMBDA h :
        IF Len(h) = 3 THEN components(doubleChars(h)) ELSE components(h))

\* /^#?([A-Fa-f0-9]{6}|[A-Fa-f0-9]{3})$/
isValidHex(hex) ==
    With(IF startsWith(hex, "#") THEN SubSeq(hex, 2, Len(hex)) ELSE hex, LAMBDA body :
        /\ Len(body) \in {3, 6}
        /\ \A i \in 1..Len(body) : IsHexDigit(Char(body, i)))

similarityThreshold == 30

\* Math.sqrt(d2) < threshold.  For an integer d2 this is d2 < threshold^2: sqrt is
\* correctly rounded and monotone, and sqrt(threshold^2) is exactly threshold.
\* Any comparison with NaN is false.
areColorsSimilar(color1, color2, threshold) ==
    LET hasNaN == \/ color1.r = NaN \/ color1.g = NaN \/ color1.b = NaN
                  \/ color2.r = NaN \/ color2.g = NaN \/ color2.b = NaN
        d2 == (color1.r - color2.r) * (color1.r - color2.r)
            + (color1.g - color2.g) * (color1.g - color2.g)
            + (color1.b - color2.b) * (color1.b - color2.b)
    IN  ~hasNaN /\ d2 < threshold * threshold

-----------------------------------------------------------------------------
(* ColorExtractor: the cluster map *)

\* the least index of a set of indexes, 0 for the empty set
firstOf(indexes) ==
    IF indexes = {} THEN 0 ELSE CHOOSE i \in indexes : \A j \in indexes : i <= j

\* index of the entry with key hex; 0 when none
keyIndex(m, hex) == firstOf({i \in 1..Len(m) : m[i].hex = hex})

\* Map.prototype.set: an existing key keeps its place and gets the new value
MapSet(m, hex, data) ==
    With(keyIndex(m, hex), LAMBDA i :
        IF i # 0
        THEN [m EXCEPT ![i] = [hex |-> hex, rgb |-> data.rgb, count |-> data.count]]
        ELSE Append(m, [hex |-> hex, rgb |-> data.rgb, count |-> data.count]))

\* for (const [existingHex, data] of this.colorMap): index of the first entry, in
\* insertion order, similar to rgb; 0 when none
FirstSimilar(m, rgb) ==
    firstOf({i \in 1..Len(m) : areColorsSimilar(rgb, m[i].rgb, similarityThreshold)})

\* A faulty addColor: the sample that joins a cluster becomes its representative.
addColorLastWins(m, r, g, b) ==
    With(FirstSimilar(m, RGB(r, g, b)), LAMBDA i :
        IF i # 0
        THEN [m EXCEPT ![i].count = @ + 1, ![i].rgb = RGB(r, g, b)]
        ELSE MapSet(m, rgbToHex(r, g, b), [rgb |-> RGB(r, g, b), count |-> 1]))

\* A faulty addColor: the loop has no break, every similar cluster is incremented.
addColorNoBreak(m, r, g, b) ==
    With(RGB(r, g, b), LAMBDA rgb :
        IF FirstSimilar(m, rgb) # 0
        THEN [i \in 1..Len(m) |->
                 IF areColorsSimilar(rgb, m[i].rgb, similarityThreshold)
                 THEN [m[i] EXCEPT !.count = @ + 1]
                 ELSE m[i]]
        ELSE MapSet(m, rgbToHex(r, g, b), [rgb |-> rgb, count |-> 1]))

addColor(m, r, g, b) ==
    With(rgbToHex(r, g, b), LAMBDA hex :
    With(RGB(r, g, b), LAMBDA rgb :
    With(FirstSimilar(m, rgb), LAMBDA i :
        IF i # 0
        THEN [m EXCEPT ![i].count = @ + 1]
        ELSE MapSet(m, hex, [rgb |-> rgb, count |-> 1]))))

\* The loop of an analysis: addColor for each of the observations lo..hi in turn,
\* first those up to the middle, then the rest.  (The test of Len(half) only makes
\* TLC compute the first half before it starts the second; no map that addColor
\* returns is empty.)
RECURSIVE addColors(_, _, _, _)
addColors(m, obs, lo, hi) ==
    IF lo > hi THEN m
    ELSE IF lo = hi THEN addColor(m, obs[lo].r, obs[lo].g, obs[lo].b)
    ELSE LET half == addColors(m, obs, lo, (lo + hi) \div 2)
         IN  IF Len(half) = 0 THEN half
             ELSE addColors(half, obs, ((lo + hi) \div 2) + 1, hi)

-----------------------------------------------------------------------------
(* utils: sortColorsByUsage, and the percentages of an analysis *)

RECURSIVE sumRange(_, _, _)
\* the sum of the counts of entries lo..hi
sumRange(colors, lo, hi) ==
    IF lo > hi THEN 0
    ELSE IF lo = hi THEN colors[lo].count
    ELSE sumRange(colors, lo, (lo + hi) \div 2) + sumRange(colors, ((lo + hi) \div 2) + 1, hi)

\* colors.reduce((sum, c) => sum + c.count, 0)
sumCounts(colors) == sumRange(colors, 1, Len(colors))

RECURSIVE sortByCount(_, _, _)
\* Array.prototype.sort with (a, b) => b.count - a.count, which is stable, on
\* entries with counts in lo..hi: the entries of the larger counts first, entries
\* of one count in the order they had
sortByCount(colors, lo, hi) ==
    IF lo > hi THEN <<>>
    ELSE IF lo = hi THEN SelectSeq(colors, LAMBDA c : c.count = lo)
    ELSE sortByCount(colors, ((lo + hi) \div 2) + 1, hi)
            \o sortByCount(colors, lo, (lo + hi) \div 2)

\* Array.from(colorMap.entries()).map(...): the placeholder percentage (the number
\* 0 in the source) is overwritten before anything reads it; it is the string "0".
\* (SelectSeq with a test that is true only makes TLC build the array once.)
entriesOf(m) ==
    SelectSeq([i \in 1..Len(m) |->
        [hex |-> m[i].hex, rgb |-> m[i].rgb, count |-> m[i].count, percentage |-> "0"]],
        LAMBDA c : TRUE)

\* A faulty sortColorsByUsage: the entries are left in insertion order.
unsortedColors(m) == entriesOf(m)

\* every count is at least 1 and at most the sum of the counts
sortColorsByUsage(m) ==
    With(entriesOf(m), LAMBDA colors : sortByCount(colors, 1, sumCounts(colors)))

\* A faulty percentage: the hundredths are cut off, not rounded.
toFixed2Floor(count, totalCount) ==
    With((10000 * count) \div totalCount, LAMBDA h :
    With(toStringRadix(h % 100, 10), LAMBDA frac :
        toStringRadix(h \div 100, 10) \o "." \o (IF Len(frac) = 1 THEN "0" \o frac ELSE frac)))

\* ((count / totalCount) * 100).toFixed(2): the nearest number of hundredths, a tie
\* going up, written with two decimals.  In IEEE doubles the product is within
\* 1e-13 of the exact value, which decides the same hundredth whenever
\* totalCount < 160 (at 160, 23/160*100 is 14.374999999999998 and prints 14.37).
toFixed2(count, totalCount) ==
    With((2 * 10000 * count + totalCount) \div (2 * totalCount), LAMBDA h :
    With(toStringRadix(h % 100, 10), LAMBDA frac :
        toStringRadix(h \div 100, 10) \o "." \o (IF Len(frac) = 1 THEN "0" \o frac ELSE frac)))

\* const totalCount = colors.reduce(...); colors.forEach(color => color.percentage = ...)
setPercentages(colors, totalCount) ==
    [i \in 1..Len(colors) |->
        [colors[i] EXCEPT !.percentage = toFixed2(colors[i].count, totalCount)]]

withPercentages(colors) ==
    With(sumCounts(colors), LAMBDA totalCount : setPercentages(colors, totalCount))

\* Array.prototype.slice(0, n)
slice0(colors, n) == SubSeq(colors, 1, IF n < Len(colors) THEN n ELSE Len(colors))

-----------------------------------------------------------------------------
(* utils: getLuminance *)

\* c => (c / 255 <= 0.03928 ? c / 255 / 12.92 : Math.pow((c / 255 + 0.055) / 1.055, 2.4)),
\* in units of 1e-5, for c = 0..255 (entry c + 1), each rounded to the nearest unit
linearTable ==
    << 0, 30, 61, 91, 121, 152, 182, 212, 243, 273, 304, 335, 368, 402, 439, 478,
       518, 561, 605, 651, 700, 750, 802, 857, 913, 972, 1033, 1096, 1161, 1229, 1298, 1370,
       1444, 1521, 1600, 1681, 1764, 1850, 1938, 2029, 2122, 2217, 2315, 2416, 2519, 2624, 2732, 2843,
       2956, 3071, 3190, 3310, 3434, 3560, 3689, 3820, 3955, 4092, 4231, 4374, 4519, 4667, 4817, 4971,
       5127, 5286, 5448, 5613, 5781, 5951, 6125, 6301, 6480, 6663, 6848, 7036, 7227, 7421, 7619, 7819,
       8022, 8228, 8438, 8650, 8866, 9084, 9306, 9531, 9759, 9990, 10224, 10462, 10702, 10946, 11193, 11444,
       11697, 11954, 12214, 12477, 12744, 13014, 13287, 13563, 13843, 14126, 14413, 14703, 14996, 15293, 15593, 15896,
       16203, 16513, 16827, 17144, 17465, 17789, 18116, 18447, 18782, 19120, 19462, 19807, 20156, 20508, 20864, 21223,
       21586, 21953, 22323, 22697, 23074, 23455, 23840, 24228, 24620, 25016, 25415, 25818, 26225, 26636, 27050, 27468,
       27889, 28315, 28744, 29177, 29614, 30054, 30499, 30947, 31399, 31855, 32314, 32778, 33245, 33716, 34191, 34670,
       35153, 35640, 36131, 36625, 37124, 37626, 38133, 38643, 39157, 39676, 40198, 40724, 41254, 41789, 42327, 42869,
       43415, 43966, 44520, 45079, 45641, 46208, 46778, 47353, 47932, 48515, 49102, 49693, 50289, 50888, 51492, 52100,
       52712, 53328, 53948, 54572, 55201, 55834, 56471, 57112, 57758, 58408, 59062, 59720, 60383, 61050, 61721, 62396,
       63076, 63760, 64448, 65141, 65837, 66539, 67244, 67954, 68669, 69387, 70110, 70838, 71569, 72306, 73046, 73791,
       74540, 75294, 76052, 76815, 77582, 78354, 79130, 79910, 80695, 81485, 82279, 83077, 83880, 84687, 85499, 86316,
       87137, 87962, 88792, 89627, 90466, 91310, 92158, 93011, 93869, 94731, 95597, 96469, 97345, 98225, 99110, 100000 >>

\* 0.2126 * rs + 0.7152 * gs + 0.0722 * bs, in units of 1e-9.  The table's rounding
\* leaves an error below 5e-6, far less than the distance of any pixel of the
\* model from the two thresholds.
getLuminance(r, g, b) ==
    2126 * linearTable[r + 1] + 7152 * linearTable[g + 1] + 722 * linearTable[b + 1]

\* luminance < 0.05 || luminance > 0.95, in the units of getLuminance
luminanceOutOfRange(luminance) == luminance < 50000000 \/ luminance > 950000000

-----------------------------------------------------------------------------
(* ColorExtractor.analyzeImage *)

\* every sampleRate-th pixel is read: i += 4 * sampleRate over the RGBA bytes
sampleRate == 5
\* a pixel below this alpha is skipped
alphaMin == 128
\* colors.slice(0, 50)
imageCap == 50
\* colors.slice(0, 30)
pageCap == 30

\* The observations the sampling loop hands to addColor.  pixels is the canvas'
\* image data as a sequence of pixels [r, g, b, a]; sampled is those the loop reads.
sampled(pixels) ==
    [j \in 1..((Len(pixels) + sampleRate - 1) \div sampleRate) |->
        pixels[(j - 1) * sampleRate + 1]]

\* A faulty test of the alpha: a pixel of alpha 128 is skipped too.
skippedAtThreshold(px) ==
    \/ px.a <= alphaMin
    \/ luminanceOutOfRange(getLuminance(px.r, px.g, px.b))

\* if (a < 128) continue; if (luminance < 0.05 || luminance > 0.95) continue
skipped(px) ==
    \/ px.a < alphaMin
    \/ luminanceOutOfRange(getLuminance(px.r, px.g, px.b))

imageObservations(pixels) ==
    With(SelectSeq(sampled(pixels), LAMBDA px : ~skipped(px)), LAMBDA kept :
        [j \in 1..Len(kept) |-> RGB(kept[j].r, kept[j].g, kept[j].b)])

\* A faulty colorMap.clear(): the map is left as it was.
keepMap(m) == m

\* this.colorMap.clear()
clearMap(m) == <<>>

\* sortColorsByUsage(this.colorMap) followed by the percentages
paletteOf(m) == With(sortColorsByUsage(m), LAMBDA colors : withPercentages(colors))

\* what an analysis leaves and returns: the map, the returned palette (at most cap
\* entries; cap 0 for no limit) and (history) the observations handed to addColor
analysis(m, obs, cap) ==
    With(addColors(clearMap(m), obs, 1, Len(obs)), LAMBDA map :
    With(paletteOf(map), LAMBDA colors :
        [map |-> map, obs |-> obs,
         colors |-> IF cap = 0 THEN colors ELSE slice0(colors, cap)]))

analyzeImage(m, pixels) ==
    With(imageObservations(pixels), LAMBDA obs : analysis(m, obs, imageCap))

-----------------------------------------------------------------------------
(* ColorExtractor.parseColor *)

RECURSIVE digitsEnd(_, _)
\* the position after the run of decimal digits that starts at i
digitsEnd(s, i) == IF IsDigit(Char(s, i)) THEN digitsEnd(s, i + 1) ELSE i

RECURSIVE spacesEnd(_, _)
\* the position after the run of white space that starts at i
spacesEnd(s, i) == IF IsSpace(Char(s, i)) THEN spacesEnd(s, i + 1) ELSE i

\* /rgba?\((\d+),\s*(\d+),\s*(\d+)/ tried at position p: the three captures, or <<>>
rgbMatchAt(s, p) ==
    IF Slice(s, p, p + 2) # "rgb" THEN <<>>
    ELSE
    With(IF Char(s, p + 3) = "a" THEN p + 4 ELSE p + 3, LAMBDA q :
    IF Char(s, q) # "(" THEN <<>>
    ELSE
    With(digitsEnd(s, q + 1), LAMBDA r1 :
    IF r1 = q + 1 \/ Char(s, r1) # "," THEN <<>>
    ELSE
    With(spacesEnd(s, r1 + 1), LAMBDA g0 :
    With(digitsEnd(s, g0), LAMBDA g1 :
    IF g1 = g0 \/ Char(s, g1) # "," THEN <<>>
    ELSE
    With(spacesEnd(s, g1 + 1), LAMBDA b0 :
    With(digitsEnd(s, b0), LAMBDA b1 :
    IF b1 = b0 THEN <<>>
    ELSE <<SubSeq(s, q + 1, r1 - 1), SubSeq(s, g0, g1 - 1), SubSeq(s, b0, b1 - 1)>>))))))

RECURSIVE rgbMatchFrom(_, _)
rgbMatchFrom(s, p) ==
    IF p > Len(s) THEN <<>>
    ELSE With(rgbMatchAt(s, p), LAMBDA m :
            IF m # <<>> THEN m ELSE rgbMatchFrom(s, p + 1))

\* colorString.match(...): the leftmost match
rgbMatch(s) == rgbMatchFrom(s, 1)

\* The colour the page's text inherits: what the host computes for an element whose
\* own color declaration it rejected.
inheritedColor == "rgb(0, 0, 0)"

\* The host: window.getComputedStyle(tempDiv).color after tempDiv.style.color =
\* colorString.  A keyword the host knows computes to its rgb()/rgba() form; a
\* value the host rejects as a colour leaves the property unset, and the computed
\* value is the inherited one.
hostComputedColor(colorString) ==
    With(toLowerCase(trim(colorString)), LAMBDA k :
        CASE k = "blue"        -> "rgb(0, 0, 255)"
          [] k = "red"         -> "rgb(255, 0, 0)"
          [] k = "gray"        -> "rgb(128, 128, 128)"
          [] k = "white"       -> "rgb(255, 255, 255)"
          [] k = "transparent" -> "rgba(0, 0, 0, 0)"
          [] OTHER             -> inheritedColor)

\* the colour whose components are the three numbers of m
captured(m) == [r |-> m[1], g |-> m[2], b |-> m[3]]

RECURSIVE parseColor(_)
parseColor(colorString) ==
    With(rgbMatch(colorString), LAMBDA m :
        IF m # <<>>
        THEN With([k \in 1..3 |-> parseInt(m[k], 10)], captured)
        ELSE IF startsWith(colorString, "#")
        THEN hexToRgb(colorString)
        ELSE parseColor(hostComputedColor(colorString)))

\* parseColor of each of the strings, in order
parseColors(strings) == [k \in 1..Len(strings) |-> parseColor(strings[k])]

-----------------------------------------------------------------------------
(* ColorExtractor.analyzeSVG *)

RECURSIVE findFrom(_, _, _)
findFrom(s, pattern, i) ==
    IF i + Len(pattern) - 1 > Len(s) THEN 0
    ELSE IF SubSeq(s, i, i + Len(pattern) - 1) = pattern THEN i
    ELSE findFrom(s, pattern, i + 1)

\* position of the first occurrence of pattern in s, 0 when absent
findString(s, pattern) == findFrom(s, pattern, 1)

RECURSIVE untilSemicolon(_, _)
\* the position after the run of characters other than ';' that starts at i
untilSemicolon(s, i) ==
    IF i <= Len(s) /\ Char(s, i) # ";" THEN untilSemicolon(s, i + 1) ELSE i

\* style.match(/<prop>:\s*([^;]+)/): the capture, "" when there is no match.  (No
\* style of the model has a declaration whose value is blank.)
styleMatch(style, prop) ==
    With(findString(style, prop \o ":"), LAMBDA p :
    IF p = 0 THEN ""
    ELSE
    With(spacesEnd(style, p + Len(prop) + 1), LAMBDA v0 :
    With(untilSemicolon(style, v0), LAMBDA v1 :
    IF v1 = v0 THEN "" ELSE SubSeq(style, v0, v1 - 1))))

\* fill && fill !== 'none' && fill !== 'transparent'   (getAttribute's null is "")
paintIsColor(value) == value # "" /\ value # "none" /\ value # "transparent"

\* the attribute's value if it is parsed, in a sequence
paint(value) == IF paintIsColor(value) THEN <<value>> ELSE <<>>

\* if (style) { const xMatch = style.match(...); if (xMatch) ... }: the capture if
\* there is one, in a sequence
stylePaint(style, prop) ==
    IF style = "" THEN <<>>
    ELSE With(styleMatch(style, prop), LAMBDA match :
            IF match # "" THEN <<match>> ELSE <<>>)

\* the strings one element hands to parseColor, in the order they are parsed
elementPaints(el) ==
    paint(el.fill) \o paint(el.stroke)
        \o stylePaint(el.style, "fill") \o stylePaint(el.style, "stroke")

RECURSIVE svgPaints(_, _)
svgPaints(elements, k) ==
    IF k > Len(elements) THEN <<>>
    ELSE elementPaints(elements[k]) \o svgPaints(elements, k + 1)

\* the observations the loop over the elements hands to addColor
svgObservations(elements) == With(svgPaints(elements, 1), LAMBDA strings : parseColors(strings))

\* elements: svgDoc.querySelectorAll('*') as records [fill, stroke, style]
analyzeSVG(m, elements) ==
    With(svgObservations(elements), LAMBDA obs : analysis(m, obs, 0))

-----------------------------------------------------------------------------
(* ColorExtractor.extractFromCurrentPage *)

properties ==
    <<"color", "backgroundColor", "borderColor", "borderTopColor",
      "borderRightColor", "borderBottomColor", "borderLeftColor", "outlineColor">>

\* value && value !== 'rgba(0, 0, 0, 0)' && value !== 'transparent'
styleIsColor(value) == value # "" /\ value # "rgba(0, 0, 0, 0)" /\ value # "transparent"

RECURSIVE propertyValues(_, _)
\* styles: window.getComputedStyle(element), a function of the property name; the
\* values handed to parseColor, from the k-th property on
propertyValues(styles, k) ==
    IF k > Len(properties) THEN <<>>
    ELSE (IF styleIsColor(styles[properties[k]]) THEN <<styles[properties[k]]>> ELSE <<>>)
            \o propertyValues(styles, k + 1)

RECURSIVE pageValues(_, _)
pageValues(allElements, k) ==
    IF k > Len(allElements) THEN <<>>
    ELSE propertyValues(allElements[k], 1) \o pageValues(allElements, k + 1)

\* the observations the loop over the elements hands to addColor
pageObservations(allElements) ==
    With(pageValues(allElements, 1), LAMBDA strings : parseColors(strings))

\* allElements: the computed styles of document.querySelectorAll('*')
extractFromCurrentPage(m, allElements) ==
    With(pageObservations(allElements), LAMBDA obs : analysis(m, obs, pageCap))

-----------------------------------------------------------------------------
(* ColorExtractor.extractFromPDF, extractFromDocument: the sample palettes *)

Entry(hex, r, g, b, count, percentage) ==
    [hex |-> hex, rgb |-> RGB(r, g, b), count |-> count, percentage |-> percentage]

extractFromPDF ==
    << Entry("#000000", 0, 0, 0, 100, "40.00"),
       Entry("#FFFFFF", 255, 255, 255, 80, "32.00"),
       Entry("#333333", 51, 51, 51, 50, "20.00"),
       Entry("#0066CC", 0, 102, 204, 20, "8.00") >>

extractFromDocument ==
    << Entry("#0078D4", 0, 120, 212, 100, "35.00"),
       Entry("#FFFFFF", 255, 255, 255, 90, "31.50"),
       Entry("#323130", 50, 49, 48, 60, "21.00"),
       Entry("#107C10", 16, 124, 16, 35, "12.50") >>

-----------------------------------------------------------------------------
(* The environment: the files a user may drop, the page, what a user may type *)

Pixel(r, g, b, a) == [r |-> r, g |-> g, b |-> b, a |-> a]

\* pixels skipped by the sampling stride
filler == Pixel(1, 2, 3, 255)

\* image data in which the sampled pixels are samples, in order
spread(samples) ==
    [i \in 1..(sampleRate * (Len(samples) - 1) + 1) |->
        IF (i - 1) % sampleRate = 0 THEN samples[((i - 1) \div sampleRate) + 1] ELSE filler]

\* 64 colours, any two at distance 40 or more, all of mid luminance
gridColor(k) ==
    RGB(70 + 40 * (k % 4), 70 + 40 * ((k \div 4) % 4), 70 + 40 * (k \div 16))

opaque(c) == Pixel(c.r, c.g, c.b, 255)

\* 52 distinct colours, then the last two of them twice more
bigSamples ==
    [i \in 1..56 |-> opaque(gridColor(IF i <= 52 THEN i - 1 ELSE 50 + (i % 2)))]

rgbString(c) ==
    "rgb(" \o toStringRadix(c.r, 10) \o ", " \o toStringRadix(c.g, 10)
           \o ", " \o toStringRadix(c.b, 10) \o ")"

File(name, type) == [name |-> name, type |-> type]

\* the files of the application specification
Files ==
    { File("photo.png", "image/png"),      File("ties.JPG", "image/jpeg"),
      File("blank.png", "image/png"),      File("broken.png", "image/png"),
      File("spec.svg", "image/svg+xml"),   File("rect.SVG", "image/svg+xml"),
      File("wide.svg", "image/svg+xml"),   File("locked.svg", "image/svg+xml"),
      File("typo.svg", "image/svg+xml"),   File("styled.svg", "image/svg+xml"),
      File("paper.pdf", "application/pdf"), File("deck.pptx", ""),
      File("notes.txt", "text/plain") }

\* the files of the specification with more clusters than a palette may hold
LargeFiles ==
    { File("big.png", "image/png"),        File("broken.png", "image/png"),
      File("ties.JPG", "image/jpeg"),      File("stripes.svg", "image/svg+xml"),
      File("rect.SVG", "image/svg+xml"),   File("locked.svg", "image/svg+xml"),
      File("paper.pdf", "application/pdf"), File("deck.pptx", ""),
      File("notes.txt", "text/plain") }

\* files the host cannot read (reader.onerror) or cannot decode (img.onerror)
unreadable(file) == file.name = "locked.svg"
undecodable(file) == file.name = "broken.png"

\* the image data the canvas yields for a decoded image file
imageData(file) ==
    CASE file.name = "photo.png" ->
            spread(<< Pixel(100, 100, 100, 255), Pixel(100, 100, 130, 255),
                      Pixel(100, 100, 129, 255), Pixel(200, 200, 200, 255),
                      Pixel(200, 200, 200, 255), Pixel(200, 200, 200, 255) >>)
      [] file.name = "ties.JPG" ->
            spread(<< Pixel(200, 200, 200, 255), Pixel(100, 100, 100, 127),
                      Pixel(250, 250, 250, 255), Pixel(100, 100, 100, 128),
                      Pixel(10, 10, 10, 255),    Pixel(100, 100, 130, 255) >>)
      [] file.name = "blank.png" ->
            spread(<< Pixel(100, 100, 100, 0), Pixel(255, 255, 255, 255),
                      Pixel(0, 0, 0, 255) >>)
      [] file.name = "big.png" -> spread(bigSamples)
      [] OTHER -> <<>>

Element(fill, stroke, style) == [fill |-> fill, stroke |-> stroke, style |-> style]

\* the elements of the parsed SVG text of a file
svgElements(file) ==
    CASE file.name = "spec.svg" ->
            << Element("", "", ""),
               Element("#0A0A0A", "none", ""),
               Element("#0a0a0a", "", "stroke-width:2"),
               Element("rgb(200, 200, 200)", "#0A0A0A", ""),
               Element("", "", "fill:rgb(200,200,200)") >>
      [] file.name = "rect.SVG" ->
            << Element("", "", ""),
               Element("#FF0000", "blue", "") >>
      [] file.name = "stripes.svg" ->
            [e \in 1..7 |-> Element(rgbString(gridColor(e)), "none", "")]
      [] file.name = "wide.svg" ->
            << Element("rgb(300,0,0)", "rgb(300,0,0)", ""),
               Element("rgb(18,3072,0)", "transparent", ""),
               Element("#c8c8c8", "", "") >>
      [] file.name = "typo.svg" ->
            << Element("#646464", "grren", ""),
               Element("#c8c8c8", "", "") >>
      [] file.name = "styled.svg" ->
            << Element("#646464", "none", "fill: none; stroke: transparent"),
               Element("transparent", "#c8c8c8", "stroke-width: 2; fill:#646464") >>
      [] OTHER -> <<>>

ComputedStyle(color, background, border, outline) ==
    [p \in {properties[k] : k \in 1..Len(properties)} |->
        CASE p = "color"           -> color
          [] p = "backgroundColor" -> background
          [] p = "outlineColor"    -> outline
          [] OTHER                 -> border]

\* the documents the application may be showing when the page is scanned
Pages == {"plain"}
LargePages == {"rich"}

pageElements(page) ==
    CASE page = "plain" ->
            << ComputedStyle("rgb(100, 100, 100)", "rgba(0, 0, 0, 0)",
                             "rgb(100, 100, 100)", "rgb(100, 100, 100)"),
               ComputedStyle("rgb(200, 200, 200)", "rgba(100, 100, 129, 0.5)",
                             "rgb(200, 200, 200)", "rgb(200, 200, 200)") >>
      [] page = "rich" ->
            [e \in 1..4 |->
                [p \in {properties[k] : k \in 1..Len(properties)} |->
                    LET k == CHOOSE k \in 1..Len(properties) : properties[k] = p
                    IN  rgbString(gridColor(8 * (e - 1) + (k - 1)))]]

\* what a user may have typed in the URL field, in the manual colour field, and what
\* the eye dropper may return
UrlInputs == {"", " https://example.org "}
ManualInputs == {"#646464", " c8c8c8 ", "#646465", "abc", "#12G"}
EyeDropperResults == {"#c8c8c8", "#0a0a0a"}

-----------------------------------------------------------------------------
(* main script *)

\* displayColors(colors): currentColors = colors (the rendering is not modelled)
displayColors(colors) == colors

\* A faulty addSingleColor: push where the source has unshift.
addSingleColorAtEnd(colors, hex) ==
    With([hex |-> toUpperCase(hex), rgb |-> hexToRgb(hex),
          count |-> 1, percentage |-> "100.00"], LAMBDA color :
        IF \A i \in 1..Len(colors) : colors[i].hex # color.hex
        THEN [colors |-> displayColors(colors \o <<color>>), toasts |-> <<>>]
        ELSE [colors |-> colors, toasts |-> <<"Color already in the list">>])

addSingleColor(colors, hex) ==
    With([hex |-> toUpperCase(hex), rgb |-> hexToRgb(hex),
          count |-> 1, percentage |-> "100.00"], LAMBDA color :
    With(\E i \in 1..Len(colors) : colors[i].hex = color.hex, LAMBDA exists :
        IF ~exists
        THEN [colors |-> displayColors(<<color>> \o colors), toasts |-> <<>>]
        ELSE [colors |-> colors, toasts |-> <<"Color already in the list">>]))

\* which extraction handleFile chooses for a file
fileKind(file) ==
    With(toLowerCase(file.name), LAMBDA fileName :
        IF startsWith(file.type, "image/")
        THEN IF endsWith(fileName, ".svg") THEN "svg" ELSE "image"
        ELSE IF file.type = "application/pdf" \/ endsWith(fileName, ".pdf")
        THEN "pdf"
        ELSE IF \E ext \in {".doc", ".docx", ".ppt", ".pptx", ".xls", ".xlsx"} :
                    endsWith(fileName, ext)
        THEN "document"
        ELSE "unsupported")

extractedToast(colors, file) ==
    "Successfully extracted " \o toStringRadix(Len(colors), 10)
        \o " colors from " \o file.name

\* a call of handleFile: its file, where it stands, the palette its extraction
\* returned and (history) the results that its displayColors replaced
Request(file, pc, colors) ==
    [file |-> file, pc |-> pc, colors |-> colors, replaced |-> <<>>]

\* a handler that ran: which, for which request (0 for none), on what input
Handler(op, req, arg) == [op |-> op, req |-> req, arg |-> arg]

Init ==
    /\ colorMap = <<>>
    /\ added = <<>>
    /\ currentColors = <<>>
    /\ requests = <<>>
    /\ toasts = <<>>
    /\ last = Handler("init", 0, "")
    /\ nEvents = 0

\* handleFile(file), up to its first await that suspends
HandleFile(file) ==
    /\ nEvents < MaxEvents
    /\ nEvents' = nEvents + 1
    /\ last' = Handler("handleFile", Len(requests) + 1, file.name)
    /\ \E kind \in {fileKind(file)} :
       \/ /\ kind \in {"image", "svg"}
          /\ requests' = Append(requests, Request(file, "reading", <<>>))
          /\ toasts' = <<>>
          /\ UNCHANGED <<colorMap, added, currentColors>>
       \/ /\ kind = "pdf"
          /\ requests' = Append(requests, [Request(file, "done", extractFromPDF)
                                               EXCEPT !.replaced = currentColors])
          /\ currentColors' = displayColors(extractFromPDF)
          /\ toasts' = << "PDF color extraction requires additional libraries. Showing sample colors.",
                          extractedToast(extractFromPDF, file) >>
          /\ UNCHANGED <<colorMap, added>>
       \/ /\ kind = "document"
          /\ requests' = Append(requests, [Request(file, "done", extractFromDocument)
                                               EXCEPT !.replaced = currentColors])
          /\ currentColors' = displayColors(extractFromDocument)
          /\ toasts' = << "Document color extraction requires server-side processing. Showing sample colors.",
                          extractedToast(extractFromDocument, file) >>
          /\ UNCHANGED <<colorMap, added>>
       \/ /\ kind = "unsupported"
          /\ requests' = Append(requests, Request(file, "failed", <<>>))
          /\ toasts' = <<"Error processing file: Unsupported file type">>
          /\ UNCHANGED <<colorMap, added, currentColors>>

\* A faulty handleFile: the palette is shown only if no later upload was started.
ResolveIfLatest(r, result, op) ==
    /\ colorMap' = result.map
    /\ added' = result.obs
    /\ requests' = [requests EXCEPT ![r].pc = "done", ![r].colors = result.colors,
                                    ![r].replaced = currentColors]
    /\ currentColors' = IF r = Len(requests) THEN displayColors(result.colors)
                                             ELSE currentColors
    /\ toasts' = <<extractedToast(result.colors, requests[r].file)>>
    /\ last' = Handler(op, r, requests[r].file.name)
    /\ UNCHANGED nEvents

\* the rest of handleFile once the extraction's promise resolved with result
Resolve(r, result, op) ==
    /\ colorMap' = result.map
    /\ added' = result.obs
    /\ requests' = [requests EXCEPT ![r].pc = "done", ![r].colors = result.colors,
                                    ![r].replaced = currentColors]
    /\ currentColors' = displayColors(result.colors)
    /\ toasts' = <<extractedToast(result.colors, requests[r].file)>>
    /\ last' = Handler(op, r, requests[r].file.name)
    /\ UNCHANGED nEvents

\* the rest of handleFile once the extraction's promise rejected
Reject(r, message, op) ==
    /\ requests' = [requests EXCEPT ![r].pc = "failed"]
    /\ toasts' = <<"Error processing file: " \o message>>
    /\ last' = Handler(op, r, requests[r].file.name)
    /\ UNCHANGED <<colorMap, added, currentColors, nEvents>>

\* reader.onload of extractFromImage (the image starts to load) and of
\* extractFromSVG (the text is analysed at once)
ReaderOnload(r) ==
    /\ requests[r].pc = "reading"
    /\ ~unreadable(requests[r].file)
    /\ \/ /\ fileKind(requests[r].file) = "image"
          /\ requests' = [requests EXCEPT ![r].pc = "decoding"]
          /\ last' = Handler("reader.onload", r, requests[r].file.name)
          /\ toasts' = <<>>
          /\ UNCHANGED <<colorMap, added, currentColors, nEvents>>
       \/ /\ fileKind(requests[r].file) = "svg"
          /\ Resolve(r, analyzeSVG(colorMap, svgElements(requests[r].file)), "reader.onload")

ReaderOnerror(r) ==
    /\ requests[r].pc = "reading"
    /\ unreadable(requests[r].file)
    /\ Reject(r, IF fileKind(requests[r].file) = "svg"
                 THEN "Failed to read SVG file" ELSE "Failed to read file",
              "reader.onerror")

\* A faulty img.onload: one img shared by the requests, so that the image analysed
\* is that of the request started last.
ImgOnloadShared(r) ==
    /\ requests[r].pc = "decoding"
    /\ ~undecodable(requests[r].file)
    /\ Resolve(r, analyzeImage(colorMap, imageData(requests[Len(requests)].file)), "img.onload")

\* img.onload of extractFromImage: the image is drawn and analysed at once
ImgOnload(r) ==
    /\ requests[r].pc = "decoding"
    /\ ~undecodable(requests[r].file)
    /\ Resolve(r, analyzeImage(colorMap, imageData(requests[r].file)), "img.onload")

ImgOnerror(r) ==
    /\ requests[r].pc = "decoding"
    /\ undecodable(requests[r].file)
    /\ Reject(r, "Failed to load image", "img.onerror")

\* extractUrlBtn's click handler, with extractFromURL
ExtractUrlClick(urlInput, page) ==
    /\ nEvents < MaxEvents
    /\ nEvents' = nEvents + 1
    /\ last' = Handler("extractUrlBtn.click", 0, urlInput)
    /\ UNCHANGED requests
    /\ \/ /\ trim(urlInput) = ""
          /\ toasts' = <<"Please enter a URL">>
          /\ UNCHANGED <<colorMap, added, currentColors>>
       \/ /\ trim(urlInput) # ""
          /\ \E result \in {extractFromCurrentPage(colorMap, pageElements(page))} :
                 /\ colorMap' = result.map
                 /\ added' = result.obs
                 /\ currentColors' = displayColors(result.colors)
                 /\ toasts' = << "Analyzing current page colors due to browser security restrictions.",
                                 "Extracted " \o toStringRadix(Len(result.colors), 10)
                                    \o " colors from the page" >>

\* const hex = color.startsWith('#') ? color : '#' + color
withHash(color) == IF startsWith(color, "#") THEN color ELSE "#" \o color

\* addManualColorBtn's click handler
AddManualColorClick(manualColorInput) ==
    /\ nEvents < MaxEvents
    /\ nEvents' = nEvents + 1
    /\ last' = Handler("addManualColorBtn.click", 0, manualColorInput)
    /\ UNCHANGED <<colorMap, added, requests>>
    /\ \E hex \in {withHash(trim(manualColorInput))} :
       \/ /\ isValidHex(hex)
          /\ \E res \in {addSingleColor(currentColors, toUpperCase(hex))} :
                 /\ currentColors' = res.colors
                 /\ toasts' = res.toasts \o <<"Color added: " \o toUpperCase(hex)>>
       \/ /\ ~isValidHex(hex)
          /\ toasts' = <<"Invalid color format. Use #RRGGBB or #RGB">>
          /\ UNCHANGED currentColors

\* eyedropperBtn's click handler once eyeDropper.open() resolved.  (The handler's
\* other branches only show a toast.)
EyeDropperPick(sRGBHex) ==
    /\ nEvents < MaxEvents
    /\ nEvents' = nEvents + 1
    /\ last' = Handler("eyedropperBtn.click", 0, sRGBHex)
    /\ UNCHANGED <<colorMap, added, requests>>
    /\ \E hex \in {toUpperCase(sRGBHex)} :
       \E res \in {addSingleColor(currentColors, hex)} :
           /\ currentColors' = res.colors
           /\ toasts' = res.toasts \o <<"Color picked: " \o hex>>

ClearResults ==
    /\ nEvents < MaxEvents
    /\ nEvents' = nEvents + 1
    /\ last' = Handler("clearResultsBtn.click", 0, "")
    /\ currentColors' = <<>>
    /\ toasts' = <<"Results cleared">>
    /\ UNCHANGED <<colorMap, added, requests>>

\* the callbacks and the user's other events, the same whatever the files
Callbacks ==
    \/ \E r \in 1..Len(requests) : ReaderOnload(r)
    \/ \E r \in 1..Len(requests) : ReaderOnerror(r)
    \/ \E r \in 1..Len(requests) : ImgOnload(r)
    \/ \E r \in 1..Len(requests) : ImgOnerror(r)

PickerEvents ==
    \/ \E text \in ManualInputs : AddManualColorClick(text)
    \/ \E hex \in EyeDropperResults : EyeDropperPick(hex)
    \/ ClearResults

Next ==
    \/ \E file \in Files : HandleFile(file)
    \/ \E urlInput \in UrlInputs, page \in Pages : ExtractUrlClick(urlInput, page)
    \/ Callbacks
    \/ PickerEvents

Spec == Init /\ [][Next]_vars

\* the extractions on files and a page with more clusters than a palette may hold
NextLarge ==
    \/ \E file \in LargeFiles : HandleFile(file)
    \/ \E urlInput \in UrlInputs, page \in LargePages : ExtractUrlClick(urlInput, page)
    \/ Callbacks

SpecLarge == Init /\ [][NextLarge]_vars

\* the files of a first upload that is still in flight
FirstFiles == {File("photo.png", "image/png"), File("spec.svg", "image/svg+xml")}

\* The page with a first upload in flight: handleFile ran up to its await and
\* nothing else happened.  nEvents counts the user's events after that one.
InitRace ==
    \E file \in FirstFiles :
        /\ colorMap = <<>>
        /\ added = <<>>
        /\ currentColors = <<>>
        /\ requests = <<Request(file, "reading", <<>>)>>
        /\ toasts = <<>>
        /\ last = Handler("handleFile", 1, file.name)
        /\ nEvents = 0

\* the files of an upload started while the first is in flight
SecondFiles ==
    { File("ties.JPG", "image/jpeg"),     File("rect.SVG", "image/svg+xml"),
      File("broken.png", "image/png"),    File("locked.svg", "image/svg+xml"),
      File("paper.pdf", "application/pdf") }

\* from there on: further uploads, the callbacks, the colour picker
NextRace ==
    \/ \E file \in SecondFiles : HandleFile(file)
    \/ Callbacks
    \/ PickerEvents

SpecRace == InitRace /\ [][NextRace]_vars

-----------------------------------------------------------------------------
(* The ColorExtractor alone: colorMap.clear() and addColor, one call at a time *)

\* the (r, g, b) an analysis may hand to addColor: pixels are bytes; parseColor
\* yields any integer its rgb() pattern captures, and NaN for a '#' string without
\* hexadecimal digits
Samples ==
    { RGB(100, 100, 100), RGB(100, 100, 129), RGB(100, 100, 130), RGB(200, 200, 200),
      RGB(300, 0, 0), RGB(18, 3072, 0), RGB(NaN, NaN, NaN) }

ClusterClear ==
    /\ colorMap' = clearMap(colorMap)
    /\ added' = <<>>
    /\ last' = Handler("colorMap.clear", 0, "")
    /\ UNCHANGED <<currentColors, requests, toasts, nEvents>>

ClusterAdd(c) ==
    /\ Len(added) < MaxAdds
    /\ colorMap' = addColor(colorMap, c.r, c.g, c.b)
    /\ added' = Append(added, c)
    /\ last' = Handler("addColor", 0, "")
    /\ UNCHANGED <<currentColors, requests, toasts, nEvents>>

NextCluster ==
    \/ ClusterClear
    \/ \E c \in Samples : ClusterAdd(c)

SpecCluster == Init /\ [][NextCluster]_vars

-----------------------------------------------------------------------------
(* The conversions alone: calls of rgbToHex and hexToRgb *)

\* channel values put next to every value 0..255 of another channel
EdgeBytes == {0, 15, 16, 255}

\* the colours converted: every byte in every channel
ByteColors ==
    {RGB(x, y, z) : x \in 0..255, y \in EdgeBytes, z \in EdgeBytes}
    \cup {RGB(y, x, z) : x \in 0..255, y \in EdgeBytes, z \in EdgeBytes}
    \cup {RGB(y, z, x) : x \in 0..255, y \in EdgeBytes, z \in EdgeBytes}

\* strings a caller may hand to hexToRgb: well formed, too short, too long, with
\* letters that are no hexadecimal digits, empty
HexStrings ==
    {"#1a2B3c", "1a2b3c", "#abc", "#12", "#12345", "#1234567", "#12G456",
     "#zzzzzz", "#ggg", "#", ""}

\* rgbToHex(r, g, b) as the first call on a page just loaded: added holds the
\* argument, last.arg the string returned
RgbToHexCall(c) ==
    /\ last.op = "init"
    /\ added' = <<c>>
    /\ last' = Handler("rgbToHex", 0, rgbToHex(c.r, c.g, c.b))
    /\ UNCHANGED <<colorMap, currentColors, requests, toasts, nEvents>>

\* hexToRgb of the string rgbToHex just returned: added holds the colour
\* converted and then the colour returned
HexToRgbOfHex ==
    /\ last.op = "rgbToHex"
    /\ added' = Append(added, hexToRgb(last.arg))
    /\ last' = Handler("hexToRgb(rgbToHex)", 0, last.arg)
    /\ UNCHANGED <<colorMap, currentColors, requests, toasts, nEvents>>

\* hexToRgb(hex) of any string, as the first call: added holds what it returned
HexToRgbCall(hex) ==
    /\ last.op = "init"
    /\ added' = <<hexToRgb(hex)>>
    /\ last' = Handler("hexToRgb", 0, hex)
    /\ UNCHANGED <<colorMap, currentColors, requests, toasts, nEvents>>

NextConvert ==
    \/ \E c \in ByteColors : RgbToHexCall(c)
    \/ HexToRgbOfHex
    \/ \E hex \in HexStrings : HexToRgbCall(hex)

SpecConvert == Init /\ [][NextConvert]_vars

-----------------------------------------------------------------------------
(* Properties of addColor, over the behaviours of SpecCluster *)

\* a step that is one call of addColor; its sample is the last of added'
AddColorStep == last'.op = "addColor" /\ Len(added') = Len(added) + 1

\* the clusters whose representative is at distance below 30 of the sample c
Close(m, c) ==
    {i \in 1..Len(m) : areColorsSimilar(c, m[i].rgb, similarityThreshold)}

\* C1: addColor(r, g, b) adds 1 to the count of the first cluster, in creation order,
\* whose representative is at Euclidean distance below 30 of the sample, and changes
\* nothing else; when there is none it adds exactly one cluster, keyed by
\* rgbToHex(r, g, b), with the sample as representative and count 1, after the others.
C1_FirstSimilarOrNewCluster ==
    [][ AddColorStep =>
          LET c == added'[Len(added')]
          IN  IF Close(colorMap, c) # {}
              THEN colorMap' = [colorMap EXCEPT ![firstOf(Close(colorMap, c))].count = @ + 1]
              ELSE colorMap' = Append(colorMap, [hex |-> rgbToHex(c.r, c.g, c.b),
                                                 rgb |-> c, count |-> 1]) ]_vars

\* C4: between one clear and the next, a call of addColor leaves every cluster in
\* its place with its key and its representative, and no count decreases.
C4_ClustersKeptAndGrowing ==
    [][ AddColorStep =>
          /\ Len(colorMap') >= Len(colorMap)
          /\ \A i \in 1..Len(colorMap) :
                 /\ colorMap'[i].hex = colorMap[i].hex
                 /\ colorMap'[i].rgb = colorMap[i].rgb
                 /\ colorMap'[i].count >= colorMap[i].count ]_vars

\* two different samples at distance below 30 of each other were added, in this order
SimilarPairAdded ==
    /\ Len(added) = 2
    /\ added[1] # added[2]
    /\ areColorsSimilar(added[1], added[2], similarityThreshold)

\* C10: the clusters depend on the order of the samples: of two different samples
\* closer than 30, the one added first is the representative of the single cluster
\* of count 2, and the same two samples in the other order give the other one.
C10_FirstSampleIsRepresentative ==
    SimilarPairAdded =>
        /\ Len(colorMap) = 1
        /\ colorMap[1].rgb = added[1]
        /\ colorMap[1].count = 2
        /\ LET reversed == addColors(<<>>, <<added[2], added[1]>>, 1, 2)
           IN  /\ Len(reversed) = 1
               /\ reversed[1].rgb = added[2]
               /\ reversed[1].count = 2
               /\ reversed # colorMap

C10_Witness ==
    /\ SimilarPairAdded
    /\ last.op = "addColor"
    /\ Len(colorMap) = 1
    /\ colorMap[1].hex = rgbToHex(added[1].r, added[1].g, added[1].b)

-----------------------------------------------------------------------------
(* Properties of the extractions, over the behaviours of Spec and SpecLarge *)

\* the handler that just ran completed an analysis (analyzeImage, analyzeSVG or
\* extractFromCurrentPage): colorMap, added and currentColors are those of its pass
ExtractionDone ==
    \/ last.op = "img.onload"
    \/ last.op = "reader.onload" /\ requests[last.req].pc = "done"
    \/ last.op = "extractUrlBtn.click" /\ Len(toasts) = 2

\* the most entries the analysis that just ran returns; 0 for no limit
LastCap ==
    IF last.op = "img.onload" THEN imageCap
    ELSE IF last.op = "extractUrlBtn.click" THEN pageCap
    ELSE 0

\* the palette of a file analysed by an extractor of its own
AlonePalette(file) ==
    With(fileKind(file), LAMBDA kind :
        IF kind = "image" THEN analyzeImage(<<>>, imageData(file)).colors
        ELSE IF kind = "svg" THEN analyzeSVG(<<>>, svgElements(file)).colors
        ELSE IF kind = "pdf" THEN extractFromPDF
        ELSE extractFromDocument)

\* C2: whatever extractions ran before on the shared extractor, the clusters an
\* extraction leaves and the palette it returns are those of the same observations
\* on a freshly constructed extractor.
C2_PaletteOfFreshExtractor ==
    ExtractionDone =>
        /\ colorMap = addColors(<<>>, added, 1, Len(added))
        /\ currentColors = analysis(<<>>, added, LastCap).colors

\* an earlier extraction returned a colour that the one that just ran does not hold
C2_Witness ==
    /\ ExtractionDone
    /\ currentColors # <<>>
    /\ \E r \in 1..Len(requests) :
           /\ r # last.req
           /\ requests[r].pc = "done"
           /\ fileKind(requests[r].file) \in {"image", "svg"}
           /\ \E k \in 1..Len(requests[r].colors) :
                  \A i \in 1..Len(colorMap) : colorMap[i].hex # requests[r].colors[k].hex

\* C3: in whatever order the callbacks of the requests in flight run, the palette
\* of every completed request is the one its file gives when analysed alone.
C3_PaletteOfRequestAlone ==
    \A r \in 1..Len(requests) :
        requests[r].pc = "done" => requests[r].colors = AlonePalette(requests[r].file)

\* the request started first completed last, after an image load that left the
\* second request time to run whole, and the two palettes differ
C3_Witness ==
    /\ Len(requests) = 2
    /\ last = Handler("img.onload", 1, requests[1].file.name)
    /\ requests[1].pc = "done" /\ requests[2].pc = "done"
    /\ fileKind(requests[2].file) \in {"image", "svg"}
    /\ requests[1].colors # <<>> /\ requests[2].colors # <<>>
    /\ requests[1].colors # requests[2].colors
    /\ currentColors = requests[1].colors

\* text is a decimal number with two decimals, and it is count / total * 100
\* rounded to the nearest hundredth
IsShare(text, count, total) ==
    /\ Len(text) >= 4
    /\ Char(text, Len(text) - 2) = "."
    /\ \A k \in (1..Len(text)) \ {Len(text) - 2} : IsDigit(Char(text, k))
    /\ LET h == 100 * parseInt(SubSeq(text, 1, Len(text) - 3), 10)
                + parseInt(SubSeq(text, Len(text) - 1, Len(text)), 10)
       IN  /\ (2 * h - 1) * total <= 2 * 10000 * count
           /\ 2 * 10000 * count < (2 * h + 1) * total

\* C6: every entry of a returned palette has as percentage its count divided by the
\* number of observations aggregated in the pass, times 100, rounded to two
\* decimals and written with exactly two decimal digits.
C6_ShareOfObservations ==
    ExtractionDone =>
        \A i \in 1..Len(currentColors) :
            IsShare(currentColors[i].percentage, currentColors[i].count, Len(added))

UpperHexDigits == {"0", "1", "2", "3", "4", "5", "6", "7", "8", "9",
                   "A", "B", "C", "D", "E", "F"}

\* C8: every entry of the current results has channels in 0..255 and a hex of '#'
\* and six uppercase hexadecimal digits, which is rgbToHex of its rgb.
C8_HexIsRgbToHex ==
    \A i \in 1..Len(currentColors) :
        LET e == currentColors[i]
        IN  /\ e.rgb.r \in 0..255 /\ e.rgb.g \in 0..255 /\ e.rgb.b \in 0..255
            /\ Len(e.hex) = 7
            /\ Char(e.hex, 1) = "#"
            /\ \A k \in 2..7 : Char(e.hex, k) \in UpperHexDigits
            /\ e.hex = rgbToHex(e.rgb.r, e.rgb.g, e.rgb.b)

-----------------------------------------------------------------------------
(* Properties of the colour picker, over the behaviours of Spec *)

\* the hex the picker's handler has in hand: the text typed, trimmed and given its
\* '#', or the colour the eye dropper returned
PickedHex(h) ==
    IF h.op = "addManualColorBtn.click" THEN withHash(trim(h.arg)) ELSE h.arg

\* a step of a picker handler that reaches addSingleColor
PickerStep ==
    \/ last'.op = "eyedropperBtn.click"
    \/ last'.op = "addManualColorBtn.click" /\ isValidHex(PickedHex(last'))

AlreadyNoticed(shown) ==
    \E k \in 1..Len(shown) : shown[k] = "Color already in the list"

\* the step treats hex as addSingleColor is said to: a hex that some entry has
\* leaves the results as they are and raises the notice; any other is inserted at
\* index 0 with count 1 and '100.00', before the previous entries
AddedOrNoticed(hex) ==
    IF \E i \in 1..Len(currentColors) : currentColors[i].hex = hex
    THEN /\ currentColors' = currentColors
         /\ AlreadyNoticed(toasts')
    ELSE /\ Len(currentColors') = Len(currentColors) + 1
         /\ currentColors'[1].count = 1
         /\ currentColors'[1].percentage = "100.00"
         /\ Tail(currentColors') = currentColors
         /\ ~AlreadyNoticed(toasts')

\* C9: a picked hex that is the same exact string as an entry's leaves the results
\* unchanged and raises the 'already in the list' notice; any other, one that
\* differs only in letter case included, is inserted at index 0 with count 1 and
\* percentage '100.00', the previous entries keeping order and values.
C9_ExactStringDeduplication ==
    [][ PickerStep => AddedOrNoticed(PickedHex(last')) ]_vars

\* C9, with the comparison that addSingleColor makes: on the hex in upper case,
\* which is also the hex of the entry inserted.
C9_UpperCaseDeduplication ==
    [][ PickerStep =>
          /\ AddedOrNoticed(toUpperCase(PickedHex(last')))
          /\ Len(currentColors') > Len(currentColors)
                => currentColors'[1].hex = toUpperCase(PickedHex(last')) ]_vars

\* a hex typed in lower case, which no entry has as a string, raised the notice
C9_Witness ==
    /\ last.op = "addManualColorBtn.click"
    /\ isValidHex(PickedHex(last))
    /\ AlreadyNoticed(toasts)
    /\ \A i \in 1..Len(currentColors) : currentColors[i].hex # PickedHex(last)
    /\ \E i \in 1..Len(currentColors) : currentColors[i].hex = toUpperCase(PickedHex(last))

-----------------------------------------------------------------------------
(* Properties of the returned palettes, over the behaviours of SpecLarge *)

\* cluster j comes before cluster i: a larger count, or the same count and created
\* earlier
Before(m, j, i) ==
    \/ m[j].count > m[i].count
    \/ m[j].count = m[i].count /\ j < i

\* the place of cluster i among all the clusters so ordered
Rank(m, i) == Cardinality({j \in 1..Len(m) : Before(m, j, i)}) + 1

\* the number of entries the analysis that just ran returns
ReturnedLength ==
    IF LastCap = 0 \/ Len(colorMap) <= LastCap THEN Len(colorMap) ELSE LastCap

\* C5: the returned palette is the first N entries of all the clusters of the pass
\* ordered by count descending, equal counts in creation order, N being 50 for an
\* image, 30 for the page and without limit for an SVG.
C5_FirstNByCount ==
    ExtractionDone =>
        /\ Len(currentColors) = ReturnedLength
        /\ \A i \in 1..Len(colorMap) :
               Rank(colorMap, i) <= ReturnedLength =>
                   /\ currentColors[Rank(colorMap, i)].hex = colorMap[i].hex
                   /\ currentColors[Rank(colorMap, i)].rgb = colorMap[i].rgb
                   /\ currentColors[Rank(colorMap, i)].count = colorMap[i].count

\* an image with more than 50 clusters, the largest of them not the first created
C5_Witness ==
    /\ last.op = "img.onload"
    /\ Len(colorMap) > imageCap
    /\ Len(currentColors) = imageCap
    /\ colorMap[1].count = 1
    /\ currentColors[1].count > 1
    /\ currentColors[imageCap].count = 1

\* the hundredths that a percentage written with two decimals counts
Hundredths(text) ==
    100 * parseInt(SubSeq(text, 1, Len(text) - 3), 10)
    + parseInt(SubSeq(text, Len(text) - 1, Len(text)), 10)

RECURSIVE SumOfShares(_, _, _)
\* the sum, in hundredths, of the percentages of the entries lo..hi
SumOfShares(colors, lo, hi) ==
    IF lo > hi THEN 0
    ELSE IF lo = hi THEN Hundredths(colors[lo].percentage)
    ELSE SumOfShares(colors, lo, (lo + hi) \div 2)
         + SumOfShares(colors, ((lo + hi) \div 2) + 1, hi)

\* twice the distance, in hundredths, of the palette's sum from 100.00
TwiceOff100 ==
    With(2 * (SumOfShares(currentColors, 1, Len(currentColors)) - 10000), LAMBDA d :
        IF d < 0 THEN 0 - d ELSE d)

\* C7: the percentages of a non-empty returned palette sum to 100.00 within 0.005
\* for each returned entry.
C7_SumNear100 ==
    (ExtractionDone /\ currentColors # <<>>) =>
        TwiceOff100 <= Len(currentColors)

\* C7, for the palettes that hold every cluster of the pass; a palette cut to its
\* first 50 or 30 entries sums to no more than 100.00 and that rounding error.
C7_SumNear100WhenComplete ==
    (ExtractionDone /\ currentColors # <<>>) =>
        IF Len(currentColors) = Len(colorMap)
        THEN TwiceOff100 <= Len(currentColors)
        ELSE /\ Len(currentColors) = LastCap
             /\ 2 * (SumOfShares(currentColors, 1, Len(currentColors)) - 10000)
                    <= Len(currentColors)

\* a palette with every cluster of its pass whose rounded percentages miss 100.00
C7_Witness ==
    /\ ExtractionDone
    /\ currentColors # <<>>
    /\ Len(currentColors) = Len(colorMap)
    /\ TwiceOff100 > 0

-----------------------------------------------------------------------------
(* Properties of the conversions, over the behaviours of SpecConvert *)

\* text is '#' followed by exactly six uppercase hexadecimal digits
SixUpperHexDigits(text) ==
    /\ Len(text) = 7
    /\ Char(text, 1) = "#"
    /\ \A k \in 2..7 : Char(text, k) \in UpperHexDigits

\* C11: for all integers r, g, b in 0..255, rgbToHex(r, g, b) is '#' followed by
\* exactly six uppercase hexadecimal digits, and hexToRgb of it is {r, g, b} again.
C11_RoundTrip ==
    /\ last.op = "rgbToHex" => SixUpperHexDigits(last.arg)
    /\ last.op = "hexToRgb(rgbToHex)" => Len(added) = 2 /\ added[2] = added[1]

\* a colour with a one-digit, a two-digit lower-case-letter and a zero channel
\* made the round trip
C11_Witness ==
    /\ last.op = "hexToRgb(rgbToHex)"
    /\ added[1] = RGB(15, 171, 0)
    /\ last.arg = "#0FAB00"
    /\ added[2] = RGB(15, 171, 0)

\* hex, without a leading '#' if it has one and with a three-digit shorthand
\* expanded, is exactly six hexadecimal digits
WellFormedHex(hex) ==
    LET body == IF Char(hex, 1) = "#" THEN SubSeq(hex, 2, Len(hex)) ELSE hex
        full == IF Len(body) = 3 THEN doubleChars(body) ELSE body
    IN  /\ Len(full) = 6
        /\ \A k \in 1..6 : Char(full, k) \in UpperHexDigits \cup {"a", "b", "c", "d", "e", "f"}

\* C12: hexToRgb of a string that is not well formed fails, and returns no RGB
\* value to its caller, neither whole nor with only some channels parsed.
C12_MalformedHexFails ==
    (last.op = "hexToRgb" /\ ~WellFormedHex(last.arg)) => added = <<>>

-----------------------------------------------------------------------------
(* Properties of the SVG analysis, over the behaviours of Spec *)

\* the handler that just ran completed analyzeSVG on the file of its request
SvgAnalysed == last.op = "reader.onload" /\ requests[last.req].pc = "done"

\* the colour keywords the host of the model resolves
HostKeywords == {"blue", "red", "gray", "white", "transparent"}

\* value is neither an rgb()/rgba() string nor a '#' string nor a keyword the
\* host resolves
Unrecognized(value) ==
    /\ rgbMatch(value) = <<>>
    /\ ~startsWith(value, "#")
    /\ toLowerCase(trim(value)) \notin HostKeywords

\* C13: a colour string that is an unrecognized keyword gives no observation (no
\* cluster, no count), and every other colour string of the same extraction is
\* aggregated.
C13_UnrecognizedKeywordSkipped ==
    SvgAnalysed =>
        added = parseColors(SelectSeq(svgPaints(svgElements(requests[last.req].file), 1),
                                      LAMBDA value : ~Unrecognized(value)))

\* the values of one element that are said to be observed: fill attribute, stroke
\* attribute, inline-style fill, inline-style stroke, none of them 'none' or
\* 'transparent'
ClaimedPaints(el) ==
    SelectSeq(<<el.fill, el.stroke, styleMatch(el.style, "fill"), styleMatch(el.style, "stroke")>>,
              paintIsColor)

RECURSIVE ClaimedSvgPaints(_, _)
ClaimedSvgPaints(elements, k) ==
    IF k > Len(elements) THEN <<>>
    ELSE ClaimedPaints(elements[k]) \o ClaimedSvgPaints(elements, k + 1)

\* C14: analyzeSVG observes, element by element, the fill attribute, the stroke
\* attribute, the inline-style fill and the inline-style stroke, in this order, and
\* never a value 'none' or 'transparent', wherever the value stands.
C14_NoneAndTransparentSkipped ==
    SvgAnalysed =>
        added = parseColors(ClaimedSvgPaints(svgElements(requests[last.req].file), 1))

-----------------------------------------------------------------------------
(* Properties of the image analysis, over the behaviours of Spec *)

\* the image data of the request whose img.onload just ran
LastImage == imageData(requests[last.req].file)

\* the positions of the image data that the loop reads
SampledAt(pixels) == {i \in 1..Len(pixels) : (i - 1) % sampleRate = 0}

\* alpha at least 128 and relative luminance in [0.05, 0.95] (getLuminance counts
\* in units of 1e-9)
Opaque(px) == px.a >= 128
MidLuminance(px) == getLuminance(px.r, px.g, px.b) \in 50000000..950000000

\* C15: analyzeImage hands a sampled pixel to addColor if and only if its alpha is
\* at least 128 and its luminance lies in [0.05, 0.95]; an image without such a
\* pixel leaves the map empty and returns an empty palette.
C15_PixelFilter ==
    last.op = "img.onload" =>
        LET pixels == LastImage
            kept == SelectSeq([i \in 1..Len(pixels) |-> i],
                              LAMBDA i : /\ i \in SampledAt(pixels)
                                         /\ Opaque(pixels[i])
                                         /\ MidLuminance(pixels[i]))
        IN  /\ Len(added) = Len(kept)
            /\ \A k \in 1..Len(kept) :
                   added[k] = RGB(pixels[kept[k]].r, pixels[kept[k]].g, pixels[kept[k]].b)
            /\ kept = <<>> => colorMap = <<>> /\ currentColors = <<>>

\* an image was analysed whose sampled pixels include one of alpha 128 that was
\* kept, one of alpha 127, an opaque one that is too light and one that is too dark
C15_Witness ==
    /\ last.op = "img.onload"
    /\ \E i \in SampledAt(LastImage) :
           /\ LastImage[i].a = 128
           /\ \E k \in 1..Len(added) :
                  added[k] = RGB(LastImage[i].r, LastImage[i].g, LastImage[i].b)
    /\ \E i \in SampledAt(LastImage) : LastImage[i].a = 127 /\ MidLuminance(LastImage[i])
    /\ \E i \in SampledAt(LastImage) :
           /\ Opaque(LastImage[i])
           /\ getLuminance(LastImage[i].r, LastImage[i].g, LastImage[i].b) > 950000000
    /\ \E i \in SampledAt(LastImage) :
           /\ Opaque(LastImage[i])
           /\ getLuminance(LastImage[i].r, LastImage[i].g, LastImage[i].b) < 50000000

-----------------------------------------------------------------------------
(* Properties of the sample palettes, over the behaviours of Spec *)

\* handleFile just ran whole on a PDF or a document and showed the sample palette
SamplePaletteShown ==
    /\ last.op = "handleFile"
    /\ requests[last.req].pc = "done"

\* C16: extractFromPDF and extractFromDocument return a palette of four entries in
\* descending order of count, each hex being rgbToHex of its rgb and each
\* percentage the share of its count in the sum of the four counts, times 100,
\* rounded to two decimals.
C16_SamplePaletteWellFormed ==
    SamplePaletteShown =>
        /\ Len(currentColors) = 4
        /\ \A i \in 1..3 : currentColors[i].count >= currentColors[i + 1].count
        /\ \A i \in 1..4 :
               /\ currentColors[i].hex = rgbToHex(currentColors[i].rgb.r,
                                                   currentColors[i].rgb.g,
                                                   currentColors[i].rgb.b)
               /\ IsShare(currentColors[i].percentage, currentColors[i].count,
                          currentColors[1].count + currentColors[2].count
                          + currentColors[3].count + currentColors[4].count)

-----------------------------------------------------------------------------
(* Invariants of the cluster map, over the behaviours of SpecCluster *)

\* c has integer channels in 0..255
IsByteColor(c) == c.r \in 0..255 /\ c.g \in 0..255 /\ c.b \in 0..255

\* C17: when every observation since the last clear has channels in 0..255, the
\* counts of the clusters sum to the number of addColor calls since that clear.
C17_CountConservation ==
    (\A k \in 1..Len(added) : IsByteColor(added[k])) =>
        sumCounts(colorMap) = Len(added)

\* three or more byte colours gave several clusters, one of them with several
\* observations
C17_Witness ==
    /\ Len(added) >= 3
    /\ \A k \in 1..Len(added) : IsByteColor(added[k])
    /\ Len(colorMap) >= 2
    /\ \E i \in 1..Len(colorMap) : colorMap[i].count >= 2

\* the Euclidean distance of a and b is a number, and it is at least 30
AtLeast30Apart(a, b) ==
    /\ NaN \notin {a.r, a.g, a.b, b.r, b.g, b.b}
    /\ (a.r - b.r) * (a.r - b.r) + (a.g - b.g) * (a.g - b.g)
       + (a.b - b.b) * (a.b - b.b) >= 30 * 30

\* C18: in every state of the cluster map, the key of each cluster is rgbToHex of
\* its representative, and the representatives of any two clusters are at
\* Euclidean distance 30 or more.
C18_KeysAndSeparation ==
    /\ \A i \in 1..Len(colorMap) :
           colorMap[i].hex = rgbToHex(colorMap[i].rgb.r, colorMap[i].rgb.g, colorMap[i].rgb.b)
    /\ \A i \in 1..Len(colorMap) : \A j \in (i + 1)..Len(colorMap) :
           AtLeast30Apart(colorMap[i].rgb, colorMap[j].rgb)

-----------------------------------------------------------------------------
(* Properties of overlapping uploads, over the behaviours of SpecRace *)

\* the handler that just ran completed the request last.req and showed its palette
UploadCompleted ==
    /\ last.op \in {"img.onload", "reader.onload", "handleFile"}
    /\ requests[last.req].pc = "done"

\* C19: when two uploads were started one after the other and both succeeded, the
\* current results after both finished are the palette of the one that completed
\* last, whichever was started last; what was in the results before, a colour
\* added by hand between the two completions included, is gone.
C19_LastCompletedShown ==
    (/\ Len(requests) >= 2
     /\ requests[1].pc = "done" /\ requests[2].pc = "done"
     /\ UploadCompleted) =>
        currentColors = requests[last.req].colors

\* the upload started first completed last; the results it replaced were the
\* palette of the second upload with a colour added by hand in front, a colour
\* that the results no longer hold
C19_Witness ==
    /\ Len(requests) = 2
    /\ requests[1].pc = "done" /\ requests[2].pc = "done"
    /\ UploadCompleted /\ last.req = 1
    /\ fileKind(requests[2].file) \in {"image", "svg"}
    /\ requests[2].colors # <<>>
    /\ requests[1].colors # requests[2].colors
    /\ Len(requests[1].replaced) = Len(requests[2].colors) + 1
    /\ Tail(requests[1].replaced) = requests[2].colors
    /\ requests[1].replaced[1].percentage = "100.00"
    /\ \A i \in 1..Len(currentColors) : currentColors[i].hex # requests[1].replaced[1].hex
    /\ currentColors = requests[1].colors

=============================================================================
